---- MODULE Spec2Model ----
(***************************************************************************)
(* Model of mewbot_dev_tools/lint.py: the parsers that turn the captured   *)
(* output of isort, black, flake8, mypy, pylint and pydocstyle into        *)
(* Annotation records, and LintToolchain.run, which chains them.           *)
(*                                                                         *)
(* Python strings are TLA+ strings (Len, SubSeq and \o act on them).  A    *)
(* tool's output is read one line at a time: `input' holds the lines the   *)
(* running parser has read so far, in order, i.e. a prefix of              *)
(* output.split("\n").  Each parser action is one iteration of that        *)
(* parser's for loop.  An exception that leaves a parser leaves run() too  *)
(* (nothing in the file catches it): pc becomes "raised".                  *)
(***************************************************************************)
EXTENDS Integers, Sequences, FiniteSets, TLC

VARIABLES
    entry,      \* the function that was called: "run" or one parser
    pc,         \* the parser now running, or "done" / "raised"
    input,      \* lines of the current tool's output read so far
    fuel,       \* lines that may still be read (bound of the model)
    file,       \* diff engines: local `file`
    line,       \* diff engines: local `line`
    buffer,     \* diff engines: local `buffer`
    records,    \* the Annotations yielded so far, in order
    origin      \* per record: <<parser, index of the line that yielded it>>

vars == <<entry, pc, input, fuel, file, line, buffer, records, origin>>

(***************************************************************************)
(* Bounds of the model.                                                    *)
(***************************************************************************)
MaxDiffLines == 5   \* lines read when a diff parser is called on its own
MaxLineLines == 3   \* lines read when a line parser is called on its own
MaxRunLines  == 4   \* lines read, all tools together, in one run()

(***************************************************************************)
(* Python's str and int built-ins, as far as the parsers use them.         *)
(***************************************************************************)
Char(s, i) == SubSeq(s, i, i)

\* c in s  (c one character)
Contains(s, c) == \E i \in 1..Len(s) : Char(s, i) = c

\* s.startswith(p)
StartsWith(s, p) == Len(s) >= Len(p) /\ SubSeq(s, 1, Len(p)) = p

IsSpace(c) == c \in {" ", "\t", "\n", "\r"}

RECURSIVE LStrip(_)
LStrip(s) == IF Len(s) > 0 /\ IsSpace(Char(s, 1)) THEN LStrip(Tail(s)) ELSE s

RECURSIVE RStrip(_)
RStrip(s) ==
    IF Len(s) > 0 /\ IsSpace(Char(s, Len(s)))
    THEN RStrip(SubSeq(s, 1, Len(s) - 1))
    ELSE s

\* s.strip()
Strip(s) == RStrip(LStrip(s))

RECURSIVE SplitFrom(_, _, _, _)
SplitFrom(s, sep, maxsplit, cur) ==
    IF Len(s) = 0 THEN <<cur>>
    ELSE IF Char(s, 1) = sep /\ maxsplit # 0
         THEN <<cur>> \o SplitFrom(Tail(s), sep, maxsplit - 1, "")
         ELSE SplitFrom(Tail(s), sep, maxsplit, cur \o Char(s, 1))

\* s.split(sep): the maxsplit argument forgotten
SplitNoLimit(s, sep, maxsplit) == SplitFrom(s, sep, -1, "")

\* s.split(sep, maxsplit); maxsplit = -1 is Python's default, no limit
Split(s, sep, maxsplit) == SplitFrom(s, sep, maxsplit, "")

RECURSIVE LastIndexOf(_, _)
LastIndexOf(s, c) ==
    IF Len(s) = 0 THEN 0
    ELSE IF Char(s, Len(s)) = c THEN Len(s)
    ELSE LastIndexOf(SubSeq(s, 1, Len(s) - 1), c)

\* s.rpartition(" ")[2]: what follows the last space, all of s without one
RPartitionTail(s) == SubSeq(s, LastIndexOf(s, " ") + 1, Len(s))

Digits == "0123456789"
IsDigit(c) == \E d \in 1..10 : Char(Digits, d) = c
DigitVal(c) == (CHOOSE d \in 1..10 : Char(Digits, d) = c) - 1

\* the digits of int(): decimal digits, single underscores between digits
IsDigitString(b) ==
    /\ Len(b) > 0
    /\ IsDigit(Char(b, 1))
    /\ IsDigit(Char(b, Len(b)))
    /\ \A i \in 1..Len(b) : IsDigit(Char(b, i)) \/ Char(b, i) = "_"
    /\ \A i \in 1..(Len(b) - 1) : ~(Char(b, i) = "_" /\ Char(b, i + 1) = "_")

RECURSIVE DigitsValue(_, _)
DigitsValue(b, acc) ==
    IF Len(b) = 0 THEN acc
    ELSE IF Char(b, 1) = "_" THEN DigitsValue(Tail(b), acc)
    ELSE DigitsValue(Tail(b), 10 * acc + DigitVal(Char(b, 1)))

HasSign(t) == Len(t) > 0 /\ Char(t, 1) \in {"+", "-"}
Unsigned(t) == IF HasSign(t) THEN Tail(t) ELSE t

\* int(s) succeeds (otherwise it raises ValueError)
IntOk(s) == IsDigitString(Unsigned(Strip(s)))

\* int(s), where it succeeds
IntVal(s) ==
    LET t == Strip(s)
        v == DigitsValue(Unsigned(t), 0)
    IN IF HasSign(t) /\ Char(t, 1) = "-" THEN 0 - v ELSE v

Abs(n) == IF n < 0 THEN 0 - n ELSE n

LEVELS == {"notice", "warning", "error"}

Annotation(level, f, l, c, tool, title, message) ==
    [severity |-> level, file |-> f, line |-> l, column |-> c,
     source |-> tool, title |-> title, message |-> message]

(***************************************************************************)
(* LintToolchain.run: the parsers in the order run() chains them           *)
(* (lint_black chains lint_black_errors, then lint_black_diffs).           *)
(***************************************************************************)
\* run() with lint_flake8 chained before lint_black
RunOrderFlake8First ==
    << "lint_isort_diffs", "lint_flake8", "lint_black_errors",
       "lint_black_diffs", "lint_mypy", "lint_pylint", "lint_pydocstyle",
       "lint_bandit" >>

RunOrder ==
    << "lint_isort_diffs", "lint_black_errors", "lint_black_diffs",
       "lint_flake8", "lint_mypy", "lint_pylint", "lint_pydocstyle",
       "lint_bandit" >>

Parsers == {RunOrder[i] : i \in 1..Len(RunOrder)}

Rank(p) == CHOOSE i \in 1..Len(RunOrder) : RunOrder[i] = p

\* what runs when parser p returns: the next `yield from` of run(), or the
\* end of the call when p was called on its own
AfterReturn(p) ==
    IF entry # "run" \/ Rank(p) = Len(RunOrder) THEN "done"
    ELSE RunOrder[Rank(p) + 1]

(***************************************************************************)
(* The lines a tool may print.  Called on its own, a parser reads from     *)
(* the full set for its tool; inside run() each tool prints from a         *)
(* smaller set, so that one run can go through all the tools.              *)
(***************************************************************************)
DiffLines ==
    { "--- a\tt", "--- b\tt", "+++ a\tt",
      "@@ -12,5 +15,5 @@", "@@ -3,2 +3,4 @@",
      "@@ -12,5 +15,5 @@ ...", "@@ -7 +7 @@", "--- c",
      "+x", "-y", "" }

BlackErrorLines ==
    { "error: cannot format a.py: Cannot parse: 1:7: x",
      "warning: skip b.py: m: 2:3: i",
      "fatal: skip b.py: m: 2:3: i",
      "Oh no!", "", "error: bad", "error: h f: m: x:3: i" }

Flake8Lines ==
    { "a.py:1:2: E1 x", "b.py:3:4:W:y", " a.py: 5 :-6: m ", "banner", "",
      "a.py:1: x", "a.py:x:2: m", "a.py:1:y: m" }

MypyLines ==
    { "a.py:42:note: R", "a.py:1: error: E", "a.py:2: warning : W",
      "a.py:3:ERROR: x", "a.py:4:: x", "a.py:5:notice:n", "banner",
      "a.py:x:error: m", "a.py:1:error" }

PydocstyleLines ==
    { "a.py:1 in public module", "b.py:2 at", "  D100: Missing",
      "a.py:x at", "a:b:3 foo", "banner", "   ", "" }

BanditLines == { "finding" }

Output(p) ==
    CASE p \in {"lint_isort_diffs", "lint_black_diffs"} ->
            IF entry = "run"
            THEN {"--- a\tt", "@@ -3,2 +3,4 @@", "+x", "--- c"}
            ELSE DiffLines
      [] p = "lint_black_errors" ->
            IF entry = "run"
            THEN {"warning: skip b.py: m: 2:3: i", "error: bad"}
            ELSE BlackErrorLines
      [] p \in {"lint_flake8", "lint_pylint"} ->
            IF entry = "run" THEN {"a.py:1:2: E1 x", "banner"}
            ELSE Flake8Lines
      [] p = "lint_mypy" ->
            IF entry = "run" THEN {"a.py:42:note: R", "banner"}
            ELSE MypyLines
      [] p = "lint_pydocstyle" ->
            IF entry = "run" THEN {"a.py:1 in public module", "  D100: Missing"}
            ELSE PydocstyleLines
      [] p = "lint_bandit" -> BanditLines

Budget(e) ==
    CASE e = "run" -> MaxRunLines
      [] e \in {"lint_isort_diffs", "lint_black_diffs"} -> MaxDiffLines
      [] OTHER -> MaxLineLines

(***************************************************************************)
(* Steps shared by the parser actions.                                     *)
(***************************************************************************)
\* the for loop hands the parser its next line
Read(l) == input' = Append(input, l) /\ fuel' = fuel - 1

Yield(a) ==
    /\ records' = Append(records, a)
    /\ origin' = Append(origin, <<pc, Len(input) + 1>>)

NoYield == UNCHANGED <<records, origin>>

Init ==
    /\ entry \in {"run"} \cup (Parsers \ {"lint_bandit"})
    /\ pc = IF entry = "run" THEN RunOrder[1] ELSE entry
    /\ input = <<>>
    /\ fuel = Budget(entry)
    /\ file = ""
    /\ line = 0
    /\ buffer = ""
    /\ records = <<>>
    /\ origin = <<>>

\* ParserReturns with a diff parser flushing its pending buffer at the end
ParserReturnsFlushing ==
    /\ pc \in Parsers
    /\ pc' = AfterReturn(pc)
    /\ input' = IF entry = "run" THEN <<>> ELSE input
    /\ file' = ""
    /\ line' = 0
    /\ buffer' = ""
    /\ IF file # "" /\ buffer # ""
       THEN Yield(Annotation("error", file, line, 1, "", "", buffer))
       ELSE NoYield
    /\ UNCHANGED <<entry, fuel>>

\* A parser's for loop finds its input exhausted: the generator returns,
\* and run() goes on to the next one, whose locals start afresh.  (A tool
\* that printed nothing gives the single line "", from which no parser
\* yields; the parser may return here without having read it.)
ParserReturns ==
    /\ pc \in Parsers
    /\ pc' = AfterReturn(pc)
    /\ input' = IF entry = "run" THEN <<>> ELSE input
    /\ file' = ""
    /\ line' = 0
    /\ buffer' = ""
    /\ UNCHANGED <<entry, fuel, records, origin>>

(***************************************************************************)
(* lint_isort_diffs: one iteration of its loop over the diff isort prints. *)
(***************************************************************************)
lint_isort_diffs ==
    /\ pc = "lint_isort_diffs"
    /\ fuel > 0
    /\ \E diff_line \in Output(pc) :
        LET flush == file # "" /\ buffer # ""
            names == Split(SubSeq(diff_line, 5, Len(diff_line)), "\t", -1)
            words == Split(diff_line, " ", -1)
            range == Split(words[2], ",", -1)
        IN
        /\ Read(diff_line)
        /\ UNCHANGED entry
        /\ IF StartsWith(diff_line, "+++ ")
           THEN NoYield /\ UNCHANGED <<pc, file, line, buffer>>
           ELSE IF StartsWith(diff_line, "--- ")
           THEN /\ IF flush
                   THEN Yield(Annotation("error", file, line, 1, "isort",
                                         "isort alteration", buffer))
                   ELSE NoYield
                /\ buffer' = ""
                /\ UNCHANGED line
                /\ IF Len(names) = 2
                   THEN file' = names[1] /\ UNCHANGED pc
                   ELSE pc' = "raised" /\ UNCHANGED file
           ELSE IF StartsWith(diff_line, "@@")
           THEN /\ IF flush
                   THEN Yield(Annotation("error", file, line, 1, "isort",
                                         "isort altteration", buffer))
                   ELSE NoYield
                /\ UNCHANGED file
                /\ IF Len(words) = 4 /\ Len(range) = 2 /\ IntOk(range[1])
                   THEN /\ line' = Abs(IntVal(range[1]))
                        /\ buffer' = ""
                        /\ UNCHANGED pc
                   ELSE pc' = "raised" /\ UNCHANGED <<line, buffer>>
           ELSE /\ buffer' = buffer \o diff_line \o "\n"
                /\ NoYield
                /\ UNCHANGED <<pc, file, line>>

(***************************************************************************)
(* lint_black_diffs: one iteration of its loop over the diff black prints. *)
(***************************************************************************)
lint_black_diffs ==
    /\ pc = "lint_black_diffs"
    /\ fuel > 0
    /\ \E diff_line \in Output(pc) :
        LET flush == file # "" /\ buffer # ""
            names == Split(SubSeq(diff_line, 5, Len(diff_line)), "\t", -1)
            words == Split(diff_line, " ", -1)
            range == Split(words[2], ",", -1)
        IN
        /\ Read(diff_line)
        /\ UNCHANGED entry
        /\ IF StartsWith(diff_line, "+++ ")
           THEN NoYield /\ UNCHANGED <<pc, file, line, buffer>>
           ELSE IF StartsWith(diff_line, "--- ")
           THEN /\ IF flush
                   THEN Yield(Annotation("error", file, line, 1, "black",
                                         "Black alteration", buffer))
                   ELSE NoYield
                /\ buffer' = ""
                /\ UNCHANGED line
                /\ IF Len(names) = 2
                   THEN file' = names[1] /\ UNCHANGED pc
                   ELSE pc' = "raised" /\ UNCHANGED file
           ELSE IF StartsWith(diff_line, "@@")
           THEN /\ IF flush
                   THEN Yield(Annotation("error", file, line, 1, "black",
                                         "Black alteration", buffer))
                   ELSE NoYield
                /\ UNCHANGED file
                /\ IF Len(words) = 4 /\ Len(range) = 2 /\ IntOk(range[1])
                   THEN /\ line' = Abs(IntVal(range[1]))
                        /\ buffer' = ""
                        /\ UNCHANGED pc
                   ELSE pc' = "raised" /\ UNCHANGED <<line, buffer>>
           ELSE /\ buffer' = buffer \o diff_line \o "\n"
                /\ NoYield
                /\ UNCHANGED <<pc, file, line>>

(***************************************************************************)
(* lint_black_errors: one iteration of its loop over black's stderr.       *)
(* Nothing catches the ValueError of the unpacking or of int().            *)
(***************************************************************************)
lint_black_errors ==
    /\ pc = "lint_black_errors"
    /\ fuel > 0
    /\ \E raw \in Output(pc) :
        LET error == Strip(raw)
            parts == Split(error, ":", 5)
            level == IF Strip(parts[1]) \in LEVELS THEN Strip(parts[1])
                     ELSE "error"
        IN
        /\ Read(raw)
        /\ UNCHANGED <<entry, file, line, buffer>>
        /\ IF error = "" \/ ~Contains(error, ":")
           THEN NoYield /\ UNCHANGED pc
           ELSE IF Len(parts) = 6 /\ IntOk(parts[4]) /\ IntOk(parts[5])
           THEN /\ Yield(Annotation(level, RPartitionTail(parts[2]),
                                    IntVal(parts[4]), IntVal(parts[5]),
                                    "black", Strip(parts[3]), Strip(parts[6])))
                /\ UNCHANGED pc
           ELSE pc' = "raised" /\ NoYield

(***************************************************************************)
(* lint_flake8: one iteration of its loop; ValueError is caught.           *)
(***************************************************************************)
lint_flake8 ==
    /\ pc = "lint_flake8"
    /\ fuel > 0
    /\ \E l \in Output(pc) :
        LET parts == Split(Strip(l), ":", 3)
        IN
        /\ Read(l)
        /\ UNCHANGED <<entry, pc, file, line, buffer>>
        /\ IF ~Contains(l, ":")
           THEN NoYield
           ELSE IF Len(parts) = 4 /\ IntOk(parts[2]) /\ IntOk(parts[3])
           THEN Yield(Annotation("error", parts[1], IntVal(parts[2]),
                                 IntVal(parts[3]), "flake8", "",
                                 Strip(parts[4])))
           ELSE NoYield

(***************************************************************************)
(* lint_mypy: one iteration of its loop; ValueError is caught.             *)
(***************************************************************************)
\* the level taken without level.strip()
MypyLevelUnstripped(field) ==
    LET renamed == IF field = "note" THEN "notice" ELSE field
    IN IF renamed \in LEVELS THEN renamed ELSE "error"

MypyLevel(field) ==
    LET level == Strip(field)
        renamed == IF level = "note" THEN "notice" ELSE level
    IN IF renamed \in LEVELS THEN renamed ELSE "error"

lint_mypy ==
    /\ pc = "lint_mypy"
    /\ fuel > 0
    /\ \E l \in Output(pc) :
        LET parts == Split(Strip(l), ":", 3)
        IN
        /\ Read(l)
        /\ UNCHANGED <<entry, pc, file, line, buffer>>
        /\ IF ~Contains(l, ":")
           THEN NoYield
           ELSE IF Len(parts) = 4 /\ IntOk(parts[2])
           THEN Yield(Annotation(MypyLevel(parts[3]), parts[1],
                                 IntVal(parts[2]), 1, "mypy", "",
                                 Strip(parts[4])))
           ELSE NoYield

(***************************************************************************)
(* lint_pylint: one iteration of its loop; ValueError is caught.           *)
(***************************************************************************)
lint_pylint ==
    /\ pc = "lint_pylint"
    /\ fuel > 0
    /\ \E l \in Output(pc) :
        LET parts == Split(Strip(l), ":", 3)
        IN
        /\ Read(l)
        /\ UNCHANGED <<entry, pc, file, line, buffer>>
        /\ IF ~Contains(l, ":")
           THEN NoYield
           ELSE IF Len(parts) = 4 /\ IntOk(parts[2]) /\ IntOk(parts[3])
           THEN Yield(Annotation("error", parts[1], IntVal(parts[2]),
                                 IntVal(parts[3]), "pylint", "", parts[4]))
           ELSE NoYield

(***************************************************************************)
(* lint_pydocstyle: one iteration of its loop.  The body takes the line    *)
(* after the header with next(lines) from the same iterator; "<EOF>"       *)
(* stands for the iterator being exhausted there (StopIteration, caught),  *)
(* after which the for loop ends too and the parser returns.               *)
(***************************************************************************)
EOF == "<EOF>"

\* error = next(lines).strip(), without the strip
NextLineMessageRaw(following) == following

\* error = next(lines).strip()
NextLineMessage(following) == Strip(following)

lint_pydocstyle ==
    /\ pc = "lint_pydocstyle"
    /\ fuel > 0
    /\ \E header \in Output(pc) :
        LET parts == Split(Split(header, " ", 1)[1], ":", -1)
        IN
        /\ UNCHANGED <<entry, file, line, buffer>>
        /\ IF ~Contains(header, ":") \/ Len(parts) # 2
           THEN Read(header) /\ NoYield /\ UNCHANGED pc
           ELSE \E following \in
                    {EOF} \cup (IF fuel > 1 THEN Output(pc) ELSE {}) :
                IF following = EOF
                THEN /\ Read(header)
                     /\ NoYield
                     /\ pc' = AfterReturn(pc)
                ELSE /\ input' = input \o <<header, following>>
                     /\ fuel' = fuel - 2
                     /\ UNCHANGED pc
                     /\ IF IntOk(parts[2])
                        THEN Yield(Annotation("error", parts[1],
                                              IntVal(parts[2]), 1,
                                              "pydocstyle", "",
                                              NextLineMessage(following)))
                        ELSE NoYield

(***************************************************************************)
(* lint_bandit comes from BanditMixin, which is not in this file: only its *)
(* place in run() is modelled, as a parser that yields one Annotation per  *)
(* finding it reads.                                                       *)
(***************************************************************************)
lint_bandit ==
    /\ pc = "lint_bandit"
    /\ fuel > 0
    /\ \E l \in Output(pc) :
        /\ Read(l)
        /\ Yield(Annotation("error", "", 0, 1, "bandit", "", l))
        /\ UNCHANGED <<entry, pc, file, line, buffer>>

Next ==
    \/ lint_isort_diffs
    \/ lint_black_errors
    \/ lint_black_diffs
    \/ lint_flake8
    \/ lint_mypy
    \/ lint_pylint
    \/ lint_pydocstyle
    \/ lint_bandit
    \/ ParserReturns

Spec == Init /\ [][Next]_vars

(***************************************************************************)
(* Vocabulary of the properties below.  A property about a parser's whole  *)
(* input is stated for the parser called on its own (entry is the parser),  *)
(* where `input' is everything it has read and origin[k][2] is the index   *)
(* in `input' of the line whose processing yielded records[k].             *)
(***************************************************************************)
DiffParsers == {"lint_isort_diffs", "lint_black_diffs"}
ColonParsers == {"lint_flake8", "lint_mypy", "lint_pylint"}

Last(seq) == seq[Len(seq)]
Max(S) == CHOOSE m \in S : \A n \in S : n <= m

IsFileHeader(l) == StartsWith(l, "--- ")
IsHunkHeader(l) == StartsWith(l, "@@")
IsContent(l) ==
    ~IsFileHeader(l) /\ ~IsHunkHeader(l) /\ ~StartsWith(l, "+++ ")

HeaderIndexes(inp) ==
    {i \in 1..Len(inp) : IsFileHeader(inp[i]) \/ IsHunkHeader(inp[i])}

\* index of the last header line before line i, 0 without one
PrevHeader(inp, i) ==
    LET H == {h \in HeaderIndexes(inp) : h < i}
    IN IF H = {} THEN 0 ELSE Max(H)

\* the content lines among inp[from..to], each followed by a newline
RECURSIVE Body(_, _, _)
Body(inp, from, to) ==
    IF from > to THEN ""
    ELSE (IF IsContent(inp[from]) THEN inp[from] \o "\n" ELSE "")
         \o Body(inp, from + 1, to)

\* the name a file-header line carries, before the tab
FileName(l) == Split(SubSeq(l, 5, Len(l)), "\t", -1)[1]

\* the original-file range token of a hunk header, and its start line
RangeToken(l) == Split(l, " ", -1)[2]
HunkStart(l) == Abs(IntVal(Split(RangeToken(l), ",", -1)[1]))

\* a hunk header whose range token is -<start>[,<count>]
HunkRangeForm(l) ==
    /\ IsHunkHeader(l)
    /\ Len(Split(l, " ", -1)) >= 2
    /\ StartsWith(RangeToken(l), "-")
    /\ LET r == Split(Tail(RangeToken(l)), ",", -1)
       IN /\ Len(r) \in {1, 2}
          /\ \A n \in 1..Len(r) : IsDigitString(r[n])

NumColons(l) == Cardinality({i \in 1..Len(l) : Char(l, i) = ":"})

\* the n-th colon-separated field of a line (n <= 3)
Field(l, n) == Split(Strip(l), ":", -1)[n]

\* C1: no parser ever raises: whatever the lines, every parser of the layer
\* reaches the end of its input and run() reaches its last tool.
C1_NoParserRaises == pc # "raised"

\* the input of C2: a file header, then two hunks, each a hunk header and
\* at least one content line, the second hunk header at index j
TwoHunksAt(inp, j) ==
    /\ Len(inp) >= 5
    /\ IsFileHeader(inp[1])
    /\ IsHunkHeader(inp[2])
    /\ j \in 4..(Len(inp) - 1)
    /\ IsHunkHeader(inp[j])
    /\ \A i \in 3..Len(inp) : i # j => IsContent(inp[i])

\* C2: a diff parser that has read a file header and two hunks to the end
\* has yielded exactly two records, each with the start line of its own
\* hunk header and the content lines of its own hunk as message.
C2_TwoHunksTwoRecords ==
    \A j \in 1..Len(input) :
        (entry \in DiffParsers /\ pc = "done" /\ TwoHunksAt(input, j)) =>
            /\ Len(records) = 2
            /\ records[1].line = HunkStart(input[2])
            /\ records[1].message = Body(input, 3, j - 1)
            /\ records[2].line = HunkStart(input[j])
            /\ records[2].message = Body(input, j + 1, Len(input))

\* C3: a diff parser yields only while it processes a file-header or
\* hunk-header line, and what it yields there is the content read before
\* that line; nothing is yielded at the end of the input, so the content
\* after the last header is in no record and there are fewer records than
\* header lines (none when there is no header).
C3_NoFlushAtEnd ==
    entry \in DiffParsers =>
        /\ Len(records) = 0 \/ Len(records) + 1 <= Cardinality(HeaderIndexes(input))
        /\ \A k \in 1..Len(records) :
            /\ origin[k][2] \in HeaderIndexes(input)
            /\ records[k].message =
                 Body(input, PrevHeader(input, origin[k][2]) + 1,
                      origin[k][2] - 1)
        /\ \A k \in 1..(Len(records) - 1) : origin[k][2] < origin[k + 1][2]

\* C3 witness: black's diff parser has returned from a file header and two
\* hunks; the second hunk's content was pending and is in no record.
C3_Witness ==
    /\ entry = "lint_black_diffs"
    /\ pc = "done"
    /\ input = << "--- a\tt", "@@ -12,5 +15,5 @@", "+x", "@@ -3,2 +3,4 @@", "-y" >>
    /\ Len(records) = 1
    /\ records[1].message = "+x\n"

\* C4: once a diff parser has processed a hunk header whose range token is
\* -<start>[,<count>], it has not raised and its local line is <start>.
C4_HunkStartStored ==
    (/\ entry \in DiffParsers
     /\ pc # "done"
     /\ Len(input) > 0
     /\ HunkRangeForm(Last(input))) =>
        /\ pc # "raised"
        /\ line = HunkStart(Last(input))

\* normalize of the severity rule: trim; a canonical token stays, note is
\* notice, anything else is error
Normalize(raw) ==
    LET t == Strip(raw)
    IN CASE t \in {"notice", "warning", "error"} -> t
         [] t = "note" -> "notice"
         [] OTHER -> "error"

\* C5: every record of the mypy parser has severity normalize(level field
\* of its line), one of notice, warning, error; and every line with four
\* fields and a numeric line field has a record, whatever its level.
C5_MypySeverityNormalized ==
    entry = "lint_mypy" =>
        /\ \A k \in 1..Len(records) :
            /\ records[k].severity = Normalize(Field(input[origin[k][2]], 3))
            /\ records[k].severity \in {"notice", "warning", "error"}
        /\ \A i \in 1..Len(input) :
            (NumColons(input[i]) >= 3 /\ IntOk(Field(input[i], 2))) =>
                \E k \in 1..Len(records) : origin[k][2] = i

\* C5 witness: mypy records from a `note' line and from an `ERROR' line.
C5_Witness ==
    /\ entry = "lint_mypy"
    /\ \E k \in 1..Len(records) :
        /\ Strip(Field(input[origin[k][2]], 3)) = "note"
        /\ records[k].severity = "notice"
    /\ \E k \in 1..Len(records) :
        /\ Field(input[origin[k][2]], 3) = "ERROR"
        /\ records[k].severity = "error"

\* a line the parser p turns into a record
Qualifies(p, l) ==
    /\ NumColons(l) >= 3
    /\ IntOk(Field(l, 2))
    /\ p # "lint_mypy" => IntOk(Field(l, 3))

\* C6: the records of flake8, mypy and pylint are, in input order, one per
\* qualifying line read, with that line's numbers as line and column
\* (column 1 for mypy); the other lines add nothing, and nothing raises.
C6_OneRecordPerQualifyingLine ==
    entry \in ColonParsers =>
        LET Q == {i \in 1..Len(input) : Qualifies(entry, input[i])}
        IN /\ pc # "raised"
           /\ Len(records) = Cardinality(Q)
           /\ \A k \in 1..Len(records) :
                /\ origin[k][2] \in Q
                /\ records[k].line = IntVal(Field(input[origin[k][2]], 2))
                /\ records[k].column =
                     IF entry = "lint_mypy" THEN 1
                     ELSE IntVal(Field(input[origin[k][2]], 3))
           /\ \A k \in 1..(Len(records) - 1) : origin[k][2] < origin[k + 1][2]

\* C6 witness: flake8 has read a line without a colon between two
\* diagnostics, the second with a colon in its message, and has two records.
C6_Witness ==
    /\ entry = "lint_flake8"
    /\ input = << "a.py:1:2: E1 x", "banner", "b.py:3:4:W:y" >>
    /\ Len(records) = 2
    /\ records[2].line = 3
    /\ records[2].column = 4

\* pydocstyle: the header's first word splits on ":" in two, so that the
\* parser takes the following line; and a header `file:line summary'
DocParts(l) == Split(Split(l, " ", 1)[1], ":", -1)
TakesNext(l) == Contains(l, ":") /\ Len(DocParts(l)) = 2
IsDocHeader(l) == TakesNext(l) /\ IntOk(DocParts(l)[2])

\* the lines of inp[i..] the parser examines as headers
RECURSIVE Examined(_, _)
Examined(inp, i) ==
    IF i > Len(inp) THEN {}
    ELSE {i} \cup Examined(inp, IF TakesNext(inp[i]) THEN i + 2 ELSE i + 1)

\* the pairing of C7, the message being the following line as it is
\* (trimmed = FALSE) or with its surrounding whitespace removed (TRUE)
HeaderPairing(trimmed) ==
    entry = "lint_pydocstyle" =>
        LET E == Examined(input, 1)
            H == {i \in E : IsDocHeader(input[i]) /\ i < Len(input)}
        IN /\ pc # "raised"
           /\ Len(records) = Cardinality(H)
           /\ \A k \in 1..Len(records) :
                LET i == origin[k][2]
                IN /\ i \in H
                   /\ records[k].file = DocParts(input[i])[1]
                   /\ records[k].line = IntVal(DocParts(input[i])[2])
                   /\ records[k].message =
                        IF trimmed THEN Strip(input[i + 1]) ELSE input[i + 1]
           /\ \A k \in 1..(Len(records) - 1) :
                origin[k][2] + 2 <= origin[k + 1][2]
           /\ (Len(input) \in E /\ TakesNext(Last(input))) => pc = "done"

\* C7 as stated: each header is paired with the next raw line, which is the
\* record's message and is not examined as a header; a header at the end
\* of the input yields no record and the parser ends normally.
C7_MessageIsRawLine == HeaderPairing(FALSE)

\* C7 as amended: the same, the message being the next line with its
\* leading and trailing whitespace removed.
C7_MessageIsTrimmedLine == HeaderPairing(TRUE)

\* C7 witness: one header paired with an indented message line, then a
\* header at the end of the input, dropped.
C7_Witness ==
    /\ entry = "lint_pydocstyle"
    /\ pc = "done"
    /\ input = << "a.py:1 in public module", "  D100: Missing", "b.py:2 at" >>
    /\ Len(records) = 1
    /\ records[1].message = "D100: Missing"

\* place of a tool, and of a parser, in the order C8 states
SourcePlace(tool) ==
    CASE tool = "isort" -> 1
      [] tool = "black" -> 2
      [] tool = "flake8" -> 3
      [] tool = "mypy" -> 4
      [] tool = "pylint" -> 5
      [] tool = "pydocstyle" -> 6
      [] tool = "bandit" -> 7

ParserPlace(p) ==
    CASE p = "lint_isort_diffs" -> 1
      [] p = "lint_black_errors" -> 2
      [] p = "lint_black_diffs" -> 3
      [] p = "lint_flake8" -> 4
      [] p = "lint_mypy" -> 5
      [] p = "lint_pylint" -> 6
      [] p = "lint_pydocstyle" -> 7
      [] p = "lint_bandit" -> 8

\* the tool whose name the records of parser p carry
ToolOf(p) ==
    CASE p = "lint_isort_diffs" -> "isort"
      [] p \in {"lint_black_errors", "lint_black_diffs"} -> "black"
      [] p = "lint_flake8" -> "flake8"
      [] p = "lint_mypy" -> "mypy"
      [] p = "lint_pylint" -> "pylint"
      [] p = "lint_pydocstyle" -> "pydocstyle"
      [] p = "lint_bandit" -> "bandit"

\* C8: in the merged sequence a record of an earlier tool (isort, black's
\* stderr then black's diff, flake8, mypy, pylint, pydocstyle, bandit)
\* precedes every record of a later one, the records of one parser are in
\* the order of the lines that yielded them, and each record carries the
\* name of the tool whose parser yielded it.
C8_RecordsInToolOrder ==
    /\ \A k \in 1..Len(records) : records[k].source = ToolOf(origin[k][1])
    /\ \A i, j \in 1..Len(records) :
        i < j =>
            /\ SourcePlace(records[i].source) <= SourcePlace(records[j].source)
            /\ \/ ParserPlace(origin[i][1]) < ParserPlace(origin[j][1])
               \/ /\ origin[i][1] = origin[j][1]
                  /\ origin[i][2] < origin[j][2]

\* C8 witness: a finished run() whose records come from three tools or more.
C8_Witness ==
    /\ entry = "run"
    /\ pc = "done"
    /\ Cardinality({records[k].source : k \in 1..Len(records)}) >= 3

\* C9: the records of one diff parser all carry the same title, whether a
\* file header or a hunk header flushed them.
C9_OneTitlePerTool ==
    \A i, j \in 1..Len(records) :
        (origin[i][1] \in DiffParsers /\ origin[i][1] = origin[j][1]) =>
            records[i].title = records[j].title

\* C10: every record of a diff parser has the file of the last file header
\* before its content, the start line of a hunk header read after that file
\* header, and as message, not empty, the content lines read since the last
\* header.
C10_RecordHasHeaderContext ==
    entry \in DiffParsers =>
        \A k \in 1..Len(records) :
            LET i == origin[k][2]
                F == {f \in 1..(i - 1) : IsFileHeader(input[f])}
            IN /\ F # {}
               /\ records[k].file = FileName(input[Max(F)])
               /\ \E h \in (Max(F) + 1)..(i - 1) :
                    /\ IsHunkHeader(input[h])
                    /\ records[k].line = HunkStart(input[h])
               /\ records[k].message # ""
               /\ records[k].message =
                    Body(input, PrevHeader(input, i) + 1, i - 1)

====
